---- MODULE Spec2Model ----
(***************************************************************************)
(* Model of the int-conv crate: explicit conversions between the           *)
(* primitive integer types (zero / sign / generic extension, truncation,   *)
(* signed <-> unsigned reinterpretation).                                  *)
(*                                                                         *)
(* A value of an integer type T is its bit pattern: the set of the bit     *)
(* positions (0 = least significant) that hold a 1, a subset of            *)
(* 0 .. Bits(T)-1.  Widths are the real ones (8 .. 128 bits), so no        *)
(* pattern is ever turned into a TLC integer: numbers are compared as      *)
(* two's-complement patterns of IntBits bits (see Value).                  *)
(***************************************************************************)
EXTENDS Integers, FiniteSets, Sequences, TLC

(***************************************************************************)
(* Bounds of the model.                                                    *)
(***************************************************************************)
\* An input is the all-zeros or the all-ones pattern with at most MaxFlips
\* of the probe positions (ProbeBits) inverted.
MaxFlips == 1

(***************************************************************************)
(* The primitive integer types.                                            *)
(***************************************************************************)
Ty(n, b) == [name |-> n, bytes |-> b]

i8   == Ty("i8", 1)
i16  == Ty("i16", 2)
i32  == Ty("i32", 4)
i64  == Ty("i64", 8)
i128 == Ty("i128", 16)
u8   == Ty("u8", 1)
u16  == Ty("u16", 2)
u32  == Ty("u32", 4)
u64  == Ty("u64", 8)
u128 == Ty("u128", 16)

\* isize / usize: their size is the target's pointer width, one of the
\* widths rustc supports (16, 32 or 64 bits).
PtrBytes == {2, 4, 8}
isize(b) == Ty("isize", b)
usize(b) == Ty("usize", b)

\* mem::size_of::<T>()
size_of(T) == T.bytes

\* Width of T in bits.
Bits(T) == 8 * size_of(T)

\* The bit positions of T.
Pos(T) == 0 .. (Bits(T) - 1)

(***************************************************************************)
(* sign.rs: the Signed trait.                                              *)
(***************************************************************************)
\* impl_signed! { -$TSigned : +$TUnsigned } invocations.
impl_signed ==
    { <<i8, u8>>, <<i16, u16>>, <<i32, u32>>, <<i64, u64>>, <<i128, u128>> }
    \cup { <<isize(b), usize(b)>> : b \in PtrBytes }

\* Every type that implements Signed.
Types == { p[1] : p \in impl_signed } \cup { p[2] : p \in impl_signed }

\* The invocation that implements Signed for T.
SignedImpl(T) == CHOOSE p \in impl_signed : T \in {p[1], p[2]}

\* A wrong Signed associated type, for comparison: `type Signed = Self` in
\* both impls of the macro.
SignedOf_self(T) == T

\* <T as Signed>::Signed
SignedOf(T) == SignedImpl(T)[1]

\* <T as Signed>::Unsigned
UnsignedOf(T) == SignedImpl(T)[2]

\* T: IsSigned
IsSigned(T) == SignedOf(T) = T

\* T: IsUnsigned
IsUnsigned(T) == UnsignedOf(T) = T

(***************************************************************************)
(* Primitive operations of the language on bit patterns.                   *)
(***************************************************************************)
\* `v as U` for v of type T: same size is a no-op, larger to smaller keeps
\* the low bits, smaller to larger zero-extends an unsigned source and
\* sign-extends a signed one.
AsCast(T, U, v) ==
    IF Bits(U) <= Bits(T)
    THEN v \cap Pos(U)
    ELSE IF IsSigned(T) /\ (Bits(T) - 1) \in v
         THEN v \cup (Bits(T) .. (Bits(U) - 1))
         ELSE v

\* `self < 0` for a value of type T.
IsNegative(T, v) == IsSigned(T) /\ (Bits(T) - 1) \in v

\* `!v` for v of type T.
Not(T, v) == Pos(T) \ v

\* Smallest element of a non-empty set of naturals.
Min(S) == CHOOSE m \in S : \A n \in S : m <= n

\* v + 2^k modulo 2^w: the carry ripples from bit k through the run of 1s
\* above it and is dropped when it leaves the w bits.
AddBit(w, v, k) ==
    LET free == { j \in k .. (w - 1) : j \notin v }
    IN  IF free = {}
        THEN v \ (k .. (w - 1))
        ELSE (v \ (k .. (Min(free) - 1))) \cup {Min(free)}

\* v.wrapping_add(1) for v of type T.
wrapping_add_1(T, v) == AddBit(Bits(T), v, 0)

(***************************************************************************)
(* sign.rs: Signed::as_unsigned / as_signed / abs_unsigned.                *)
(***************************************************************************)
\* Mutant of as_unsigned: the magnitude bits without the sign bit.
as_unsigned_drop_sign(T, v) ==
    IF IsSigned(T) THEN v \ {Bits(T) - 1} ELSE v

as_unsigned(T, v) ==
    IF IsSigned(T) THEN AsCast(T, UnsignedOf(T), v) ELSE v

\* Mutant of as_signed: a saturating conversion, values above the signed
\* maximum become the maximum.
as_signed_saturating(T, v) ==
    IF IsSigned(T) \/ (Bits(T) - 1) \notin v
    THEN v
    ELSE Pos(T) \ {Bits(T) - 1}

as_signed(T, v) ==
    IF IsSigned(T) THEN v ELSE AsCast(T, SignedOf(T), v)

\* Mutant of abs_unsigned: the complement without the added 1.
abs_unsigned_no_add(T, v) ==
    IF IsSigned(T)
    THEN IF IsNegative(T, v)
         THEN Not(UnsignedOf(T), as_unsigned(T, v))
         ELSE as_unsigned(T, v)
    ELSE v

\* A wrong abs_unsigned, for comparison: the unsigned impl goes through the
\* signed variant like the signed impl does.
abs_unsigned_via_signed(T, v) ==
    IF (Bits(T) - 1) \in v
    THEN wrapping_add_1(UnsignedOf(T), Not(UnsignedOf(T), v))
    ELSE v

abs_unsigned(T, v) ==
    IF IsSigned(T)
    THEN IF IsNegative(T, v)
         THEN wrapping_add_1(UnsignedOf(T), Not(UnsignedOf(T), as_unsigned(T, v)))
         ELSE as_unsigned(T, v)
    ELSE v

(***************************************************************************)
(* extend/zero.rs: ZeroExtend.                                             *)
(***************************************************************************)
\* impl_zero_extend! invocations: $T => $U, ...
impl_zero_extend ==
    { <<u8, u16>>, <<u8, u32>>, <<u8, u64>>, <<u8, u128>>,
      <<u16, u32>>, <<u16, u64>>, <<u16, u128>>,
      <<u32, u64>>, <<u32, u128>>,
      <<u64, u128>>,
      <<i8, i16>>, <<i8, i32>>, <<i8, i64>>, <<i8, i128>>,
      <<i16, i32>>, <<i16, i64>>, <<i16, i128>>,
      <<i32, i64>>, <<i32, i128>>,
      <<i64, i128>> }

\* T: ZeroExtend<U>, by the macro or by `impl<T> ZeroExtend<T> for T`.
\* A wrong instance table, for comparison: without the impl of
\* ZeroExtend<T> for every T.
ZeroExtendImpl_macro_only(T, U) == <<T, U>> \in impl_zero_extend

\* A wrong instance table, for comparison: an instance to every wider type.
ZeroExtendImpl_any_wider(T, U) == T = U \/ Bits(U) > Bits(T)

ZeroExtendImpl(T, U) == T = U \/ <<T, U>> \in impl_zero_extend

\* Mutant of zero_extend: the casts go through the signed variants.
zero_extend_via_signed(T, U, v) ==
    IF T = U
    THEN v
    ELSE AsCast(SignedOf(U), U,
                AsCast(SignedOf(T), SignedOf(U),
                       AsCast(T, SignedOf(T), v)))

\* Mutant of zero_extend: the sign bit of the source is cleared, also when
\* the destination is the source type.
zero_extend_clear_sign(T, U, v) ==
    AsCast(UnsignedOf(U), U,
           AsCast(UnsignedOf(T), UnsignedOf(U),
                  AsCast(T, UnsignedOf(T), v \ {Bits(T) - 1})))

zero_extend(T, U, v) ==
    IF T = U
    THEN v
    ELSE AsCast(UnsignedOf(U), U,
                AsCast(UnsignedOf(T), UnsignedOf(U),
                       AsCast(T, UnsignedOf(T), v)))

(***************************************************************************)
(* extend/sign.rs: SignExtend.                                             *)
(***************************************************************************)
impl_sign_extend ==
    { <<i8, i16>>, <<i8, i32>>, <<i8, i64>>, <<i8, i128>>,
      <<i16, i32>>, <<i16, i64>>, <<i16, i128>>,
      <<i32, i64>>, <<i32, i128>>,
      <<i64, i128>> }

\* T: SignExtend<U>, by the macro or by `impl<T> SignExtend<T> for T`.
\* A wrong instance table, for comparison: the macro invoked in both
\* directions.
SignExtendImpl_both_ways(T, U) ==
    T = U \/ <<T, U>> \in impl_sign_extend \/ <<U, T>> \in impl_sign_extend

SignExtendImpl(T, U) == T = U \/ <<T, U>> \in impl_sign_extend

\* Mutant of sign_extend: the casts go through the unsigned variants.
sign_extend_via_unsigned(T, U, v) ==
    IF T = U
    THEN v
    ELSE AsCast(UnsignedOf(U), U,
                AsCast(UnsignedOf(T), UnsignedOf(U),
                       AsCast(T, UnsignedOf(T), v)))

sign_extend(T, U, v) ==
    IF T = U
    THEN v
    ELSE AsCast(SignedOf(U), U,
                AsCast(SignedOf(T), SignedOf(U),
                       AsCast(T, SignedOf(T), v)))

(***************************************************************************)
(* extend/default.rs: Extend.                                              *)
(***************************************************************************)
\* impl_extend! invocations: $T => $U, ... => $method
impl_extend ==
    { <<p[1], p[2], "zero_extend">> :
        p \in { <<u8, u16>>, <<u8, u32>>, <<u8, u64>>, <<u8, u128>>,
                <<u16, u32>>, <<u16, u64>>, <<u16, u128>>,
                <<u32, u64>>, <<u32, u128>>,
                <<u64, u128>> } }
    \cup
    { <<p[1], p[2], "sign_extend">> :
        p \in { <<i8, i16>>, <<i8, i32>>, <<i8, i64>>, <<i8, i128>>,
                <<i16, i32>>, <<i16, i64>>, <<i16, i128>>,
                <<i32, i64>>, <<i32, i128>>,
                <<i64, i128>> } }

\* T: Extend<U>, by the macro or by `impl<T> Extend<T> for T`.
ExtendImpl(T, U) ==
    T = U \/ \E m \in {"zero_extend", "sign_extend"} : <<T, U, m>> \in impl_extend

\* The $method of the invocation for (T, U).
ExtendMethod(T, U) ==
    CHOOSE m \in {"zero_extend", "sign_extend"} : <<T, U, m>> \in impl_extend

\* Mutant of extend: every invocation names zero_extend.
extend_zero_only(T, U, v) ==
    IF T = U THEN v ELSE zero_extend(T, U, v)

extend(T, U, v) ==
    IF T = U
    THEN v
    ELSE IF ExtendMethod(T, U) = "zero_extend"
         THEN zero_extend(T, U, v)
         ELSE sign_extend(T, U, v)

(***************************************************************************)
(* trunc.rs: Truncate.                                                     *)
(***************************************************************************)
impl_truncate ==
    { <<u128, u64>>, <<u128, u32>>, <<u128, u16>>, <<u128, u8>>,
      <<u64, u32>>, <<u64, u16>>, <<u64, u8>>,
      <<u32, u16>>, <<u32, u8>>,
      <<u16, u8>>,
      <<i128, i64>>, <<i128, i32>>, <<i128, i16>>, <<i128, i8>>,
      <<i64, i32>>, <<i64, i16>>, <<i64, i8>>,
      <<i32, i16>>, <<i32, i8>>,
      <<i16, i8>> }

\* T: Truncate<U>, by the macro or by `impl<T> Truncate<T> for T`.
\* A wrong instance table, for comparison: an instance wherever the cast
\* `self as U` does not widen.
TruncateImpl_any_cast(T, U) == T = U \/ Bits(T) >= Bits(U)

TruncateImpl(T, U) == T = U \/ <<T, U>> \in impl_truncate

\* Mutant of truncate: the sign bit of the source is carried over to the
\* narrower type.
truncate_keep_sign(T, U, v) ==
    IF T = U
    THEN v
    ELSE (v \cap (0 .. (Bits(U) - 2)))
         \cup (IF (Bits(T) - 1) \in v THEN {Bits(U) - 1} ELSE {})

truncate(T, U, v) ==
    IF T = U THEN v ELSE AsCast(T, U, v)

(***************************************************************************)
(* split.rs: Split / Join.                                                 *)
(***************************************************************************)
\* A wrong table, for comparison: with the invocations for the signed types.
impl_split_join_signed ==
    { <<u128, u64, u64>>, <<u64, u32, u32>>, <<u32, u16, u16>>, <<u16, u8, u8>>,
      <<i128, i64, i64>>, <<i64, i32, i32>>, <<i32, i16, i16>>, <<i16, i8, i8>> }

\* impl_split_join! { $T => $Hi : $Lo } invocations.
impl_split_join ==
    { <<u128, u64, u64>>,
      <<u64, u32, u32>>,
      <<u32, u16, u16>>,
      <<u16, u8, u8>> }

\* T: Split (and T: Join, which the same invocation implements).
SplitImpl(T) == \E p \in impl_split_join : p[1] = T

\* <T as Split>::Hi
HiOf(T) == (CHOOSE p \in impl_split_join : p[1] = T)[2]

\* <T as Split>::Lo
LoOf(T) == (CHOOSE p \in impl_split_join : p[1] = T)[3]

\* `v.shr(n)` for v of type T and n < Bits(T): the vacated high bits are 0
\* for an unsigned T and copies of the sign bit for a signed one.
\* `v >> n` and `v << n` on a value of type T overflow (a panic when
\* overflow checks are on, a masked shift amount otherwise) when n is not
\* less than the width of T.
shift_overflows(T, n) == n >= Bits(T)

shr(T, v, n) ==
    { i - n : i \in { j \in v : j >= n } }
    \cup (IF IsNegative(T, v) THEN (Bits(T) - n) .. (Bits(T) - 1) ELSE {})

\* `v.shl(n)` for v of type T and n < Bits(T): the bits shifted out of the
\* top are lost.
\* A wrong shl, for comparison: the value is left where it is.
shl_in_place(T, v, n) == v \cap Pos(T)

shl(T, v, n) == { i + n : i \in v } \cap Pos(T)

\* `a | b`
BitOr(a, b) == a \cup b

\* 8 * mem::size_of::<Self::Lo>()
\* A wrong shift amount, for comparison: the size of Self.
LoBits_of_self(T) == 8 * size_of(T)

LoBits(T) == 8 * size_of(LoOf(T))

\* A wrong lo, for comparison: the half taken from the top of the value.
lo_high_half(T, v) == truncate(T, LoOf(T), shr(T, v, LoBits(T)))

lo(T, v) == truncate(T, LoOf(T), v)

\* Wrong his, for comparison: one that does not shift, and one that shifts
\* by the half's size in bytes instead of in bits.
hi_no_shift(T, v) == truncate(T, LoOf(T), v)
hi_shift_bytes(T, v) == truncate(T, LoOf(T), shr(T, v, size_of(LoOf(T))))

hi(T, v) == truncate(T, LoOf(T), shr(T, v, LoBits(T)))

\* A wrong lo_hi, for comparison: the high half first.
lo_hi_swapped(T, v) == <<hi(T, v), lo(T, v)>>

lo_hi(T, v) == <<lo(T, v), hi(T, v)>>

\* T::join(l, h)
\* Wrong joins, for comparison: one that puts lo in the high half, and one
\* that does not shift hi.
join_swapped(T, l, h) ==
    BitOr(shl(T, zero_extend(LoOf(T), T, l), LoBits(T)),
          zero_extend(HiOf(T), T, h))
join_no_shift(T, l, h) ==
    BitOr(zero_extend(HiOf(T), T, h), zero_extend(LoOf(T), T, l))

join(T, l, h) ==
    BitOr(shl(T, zero_extend(HiOf(T), T, h), LoBits(T)),
          zero_extend(LoOf(T), T, l))

(***************************************************************************)
(* The turbofish helpers (ZeroExtended, SignExtended, Extended, Truncated) *)
(* and the impls for references.                                           *)
(***************************************************************************)
\* A reference `&v` and its dereference `*r`.
Ref(v) == [deref |-> v]
Deref(r) == r.deref

\* A wrong zero_extended, for comparison: a plain `self as T`.
zero_extended_as_cast(T, U, v) == AsCast(T, U, v)

\* self.zero_extended::<U>(), where Self: ZeroExtend<U>
zero_extended(T, U, v) == zero_extend(T, U, v)

\* self.sign_extended::<U>(), where Self: SignExtend<U>
sign_extended(T, U, v) == sign_extend(T, U, v)

\* self.extended::<U>(), where Self: Extend<U>
extended(T, U, v) == extend(T, U, v)

\* self.truncated::<U>(), where Self: Truncate<U>
truncated(T, U, v) == truncate(T, U, v)

\* impl<'a> ZeroExtend<$U> for &'a $T: one per macro invocation.
RefZeroExtendImpl(T, U) == <<T, U>> \in impl_zero_extend
zero_extend_ref(T, U, r) == zero_extend(T, U, Deref(r))

\* impl<'a> SignExtend<$U> for &'a $T
RefSignExtendImpl(T, U) == <<T, U>> \in impl_sign_extend
sign_extend_ref(T, U, r) == sign_extend(T, U, Deref(r))

\* impl<'a> Extend<$U> for &'a $T
RefExtendImpl(T, U) ==
    \E m \in {"zero_extend", "sign_extend"} : <<T, U, m>> \in impl_extend
extend_ref(T, U, r) == extend(T, U, Deref(r))

\* impl<'a> Truncate<$U> for &'a $T
RefTruncateImpl(T, U) == <<T, U>> \in impl_truncate
truncate_ref(T, U, r) == truncate(T, U, Deref(r))

(***************************************************************************)
(* The inputs.                                                             *)
(***************************************************************************)
\* The positions on both sides of the edge of every width, and two low ones.
ProbeBits(T) ==
    ({0, 3} \cup UNION { {Bits(S) - 1, Bits(S)} : S \in Types })
    \cap Pos(T)

\* The patterns of T the model starts from.
Inputs(T) ==
    LET flips == { F \in SUBSET ProbeBits(T) : Cardinality(F) <= MaxFlips }
    IN  { F : F \in flips } \cup { Pos(T) \ F : F \in flips }

(***************************************************************************)
(* The state machine: a program that takes an input value and calls up to  *)
(* two conversions in a row, the second on the result of the first.        *)
(***************************************************************************)
VARIABLES
    arg,     \* the input: [ty, val]
    first,   \* the first call: [op, ty, val] (result type and value), or NoCall
    second   \* the second call, made on the result of the first, or NoCall

vars == <<arg, first, second>>

NoCall == [op |-> "none"]

Call(o, U, r) == [op |-> o, ty |-> U, val |-> r]

Init ==
    /\ \E T \in Types : \E v \in Inputs(T) : arg = [ty |-> T, val |-> v]
    /\ first = NoCall
    /\ second = NoCall

\* The value the next call is made on.
Cur == IF first = NoCall THEN arg ELSE first

\* Record a call in the first free slot.
Push(c) ==
    /\ second = NoCall
    /\ IF first = NoCall
       THEN first' = c /\ UNCHANGED <<arg, second>>
       ELSE second' = c /\ UNCHANGED <<arg, first>>

ZeroExtend ==
    \E U \in Types :
        /\ ZeroExtendImpl(Cur.ty, U)
        /\ Push(Call("zero_extend", U, zero_extend(Cur.ty, U, Cur.val)))

SignExtend ==
    \E U \in Types :
        /\ SignExtendImpl(Cur.ty, U)
        /\ Push(Call("sign_extend", U, sign_extend(Cur.ty, U, Cur.val)))

Extend ==
    \E U \in Types :
        /\ ExtendImpl(Cur.ty, U)
        /\ Push(Call("extend", U, extend(Cur.ty, U, Cur.val)))

Truncate ==
    \E U \in Types :
        /\ TruncateImpl(Cur.ty, U)
        /\ Push(Call("truncate", U, truncate(Cur.ty, U, Cur.val)))

AsUnsigned ==
    Push(Call("as_unsigned", UnsignedOf(Cur.ty), as_unsigned(Cur.ty, Cur.val)))

AsSigned ==
    Push(Call("as_signed", SignedOf(Cur.ty), as_signed(Cur.ty, Cur.val)))

AbsUnsigned ==
    Push(Call("abs_unsigned", UnsignedOf(Cur.ty), abs_unsigned(Cur.ty, Cur.val)))

Next ==
    \/ ZeroExtend
    \/ SignExtend
    \/ Extend
    \/ Truncate
    \/ AsUnsigned
    \/ AsSigned
    \/ AbsUnsigned

Spec == Init /\ [][Next]_vars

(***************************************************************************)
(* The state machine of split.rs: a program that takes a value of a Split  *)
(* type, or the two arguments of join, and calls up to two of lo, hi,      *)
(* lo_hi and join in a row.  A pair (the arguments of join, the result of  *)
(* lo_hi) is a record with the fields lo and hi.                           *)
(***************************************************************************)
Val(T, v) == [ty |-> T, val |-> v]

IsPair(x) == "lo" \in DOMAIN x

SplitInit ==
    /\ \E T \in Types :
          /\ SplitImpl(T)
          /\ \/ \E v \in Inputs(T) : arg = Val(T, v)
             \/ \E l \in Inputs(LoOf(T)), h \in Inputs(LoOf(T)) :
                    arg = [lo |-> Val(LoOf(T), l), hi |-> Val(LoOf(T), h)]
    /\ first = NoCall
    /\ second = NoCall

Lo ==
    /\ ~IsPair(Cur)
    /\ SplitImpl(Cur.ty)
    /\ Push(Call("lo", LoOf(Cur.ty), lo(Cur.ty, Cur.val)))

Hi ==
    /\ ~IsPair(Cur)
    /\ SplitImpl(Cur.ty)
    /\ Push(Call("hi", HiOf(Cur.ty), hi(Cur.ty, Cur.val)))

LoHi ==
    /\ ~IsPair(Cur)
    /\ SplitImpl(Cur.ty)
    /\ Push([op |-> "lo_hi",
             lo |-> Val(LoOf(Cur.ty), lo_hi(Cur.ty, Cur.val)[1]),
             hi |-> Val(HiOf(Cur.ty), lo_hi(Cur.ty, Cur.val)[2])])

\* T::join(lo, hi): both parameters have the type <T as Split>::Lo.
Join ==
    /\ IsPair(Cur)
    /\ \E T \in Types :
          /\ SplitImpl(T)
          /\ Cur.lo.ty = LoOf(T)
          /\ Cur.hi.ty = LoOf(T)
          /\ Push(Call("join", T, join(T, Cur.lo.val, Cur.hi.val)))

SplitNext ==
    \/ Lo
    \/ Hi
    \/ LoHi
    \/ Join
SplitSpec == SplitInit /\ [][SplitNext]_vars

(***************************************************************************)
(* The state machine of the helpers: a program that takes a value and      *)
(* calls up to two conversions in a row, each through a turbofish helper   *)
(* or on a reference to the value.                                         *)
(***************************************************************************)
ZeroExtended ==
    \E U \in Types :
        /\ ZeroExtendImpl(Cur.ty, U)
        /\ Push(Call("zero_extended", U, zero_extended(Cur.ty, U, Cur.val)))

SignExtended ==
    \E U \in Types :
        /\ SignExtendImpl(Cur.ty, U)
        /\ Push(Call("sign_extended", U, sign_extended(Cur.ty, U, Cur.val)))

Extended ==
    \E U \in Types :
        /\ ExtendImpl(Cur.ty, U)
        /\ Push(Call("extended", U, extended(Cur.ty, U, Cur.val)))

Truncated ==
    \E U \in Types :
        /\ TruncateImpl(Cur.ty, U)
        /\ Push(Call("truncated", U, truncated(Cur.ty, U, Cur.val)))

RefZeroExtend ==
    \E U \in Types :
        /\ RefZeroExtendImpl(Cur.ty, U)
        /\ Push(Call("zero_extend_ref", U, zero_extend_ref(Cur.ty, U, Ref(Cur.val))))

RefSignExtend ==
    \E U \in Types :
        /\ RefSignExtendImpl(Cur.ty, U)
        /\ Push(Call("sign_extend_ref", U, sign_extend_ref(Cur.ty, U, Ref(Cur.val))))

RefExtend ==
    \E U \in Types :
        /\ RefExtendImpl(Cur.ty, U)
        /\ Push(Call("extend_ref", U, extend_ref(Cur.ty, U, Ref(Cur.val))))

RefTruncate ==
    \E U \in Types :
        /\ RefTruncateImpl(Cur.ty, U)
        /\ Push(Call("truncate_ref", U, truncate_ref(Cur.ty, U, Ref(Cur.val))))

HelperNext ==
    \/ ZeroExtended
    \/ SignExtended
    \/ Extended
    \/ Truncated
    \/ RefZeroExtend
    \/ RefSignExtend
    \/ RefExtend
    \/ RefTruncate

HelperSpec == Init /\ [][HelperNext]_vars


(***************************************************************************)
(* The state machine of the whole crate: a program that calls up to two of *)
(* the operations of sign.rs, extend/, trunc.rs and split.rs in a row.     *)
(***************************************************************************)
AllInit == Init \/ SplitInit

Convert == ~IsPair(Cur) /\ Next

AllNext ==
    \/ Convert
    \/ SplitNext

AllSpec == AllInit /\ [][AllNext]_vars

\* The values of the state: the argument and the results, the halves of a
\* pair each on its own.
Halves(x) == IF IsPair(x) THEN {x.lo, x.hi} ELSE {Val(x.ty, x.val)}
StateValues == UNION { Halves(x) : x \in {arg, first, second} \ {NoCall} }

TypeOK ==
    /\ arg.ty \in Types /\ arg.val \subseteq Pos(arg.ty)
    /\ first # NoCall => first.ty \in Types /\ first.val \subseteq Pos(first.ty)
    /\ second # NoCall => second.ty \in Types /\ second.val \subseteq Pos(second.ty)

(***************************************************************************)
(* Numbers.  A mathematical integer n with -2^(IntBits-1) <= n <           *)
(* 2^(IntBits-1) is written as its two's-complement pattern of IntBits     *)
(* bits; IntBits is two more than the widest type, so every value of every *)
(* type, its sum with 2^w and its negation are in range.                   *)
(***************************************************************************)
IntBits == Bits(u128) + 2

\* The number a pattern v of type T stands for: v read as unsigned, minus
\* 2^Bits(T) when T is signed and the sign bit is set.
Value(T, v) ==
    IF IsSigned(T) /\ (Bits(T) - 1) \in v
    THEN v \cup (Bits(T) .. (IntBits - 1))
    ELSE v

\* n < 0
ZNeg(n) == (IntBits - 1) \in n

\* 2^k
ZPow2(k) == {k}

\* a + b, by the carries: there is a carry into bit i when some lower bit j
\* generates one (both bits set) and no bit between kills it (both clear).
ZAdd(a, b) ==
    LET all == 0 .. (IntBits - 1)
        gen == { j \in a : j \in b }
        kill == { k \in all : k \notin a /\ k \notin b }
        carry(i) ==
            \E j \in gen : j < i /\ \A k \in kill : ~(j < k /\ k < i)
    IN  { i \in all : ((i \in a) # (i \in b)) # carry(i) }

\* n mod 2^k
ZMod2(n, k) == n \cap (0 .. (k - 1))

\* -n
ZMinus(n) == ZAdd((0 .. (IntBits - 1)) \ n, ZPow2(0))

\* a - b
ZSub(a, b) == ZAdd(a, ZMinus(b))

\* a < b
ZLess(a, b) == ZNeg(ZSub(a, b))

\* |n|
ZAbs(n) == IF ZNeg(n) THEN ZMinus(n) ELSE n

\* a <= b
ZLeq(a, b) == ~ZLess(b, a)

\* n * 2^k, for 0 <= n < 2^(IntBits-1-k)
ZMul2(n, k) == { i + k : i \in n }

\* The calls of the state, each with the value it was made on.
Calls ==
    (IF first = NoCall THEN {} ELSE { <<arg, first>> })
    \cup (IF second = NoCall THEN {} ELSE { <<first, second>> })

\* The calls of operation o.
CallsOf(o) == { c \in Calls : c[2].op = o }

(***************************************************************************)
(* Claims.                                                                 *)
(***************************************************************************)

\* C1: for every ZeroExtend instance from T to a strictly wider U and every
\* v, the low Bits(T) bits of zero_extend(v) are the bits of v, the bits
\* from Bits(T) up to Bits(U)-1 are 0, and as_unsigned(zero_extend(v)) is
\* the same number as as_unsigned(v).
C1_ZeroExtendBits ==
    \A c \in CallsOf("zero_extend") :
        LET T == c[1].ty
            U == c[2].ty
            v == c[1].val
            r == c[2].val
        IN  Bits(U) > Bits(T) =>
                /\ r \cap Pos(T) = v
                /\ r \cap (Bits(T) .. (Bits(U) - 1)) = {}
                /\ Value(UnsignedOf(U), as_unsigned(U, r))
                     = Value(UnsignedOf(T), as_unsigned(T, v))

\* A negative i8 with more than its sign bit set, zero-extended to i128.
C1_Witness ==
    /\ arg.ty = i8
    /\ arg.val = Pos(i8) \ {3}
    /\ first # NoCall
    /\ first.op = "zero_extend"
    /\ first.ty = i128

\* C2: for signed T and strictly wider signed U, zero_extend of a negative v
\* is the non-negative number v + 2^Bits(T) (for -1: 2^Bits(T) - 1, all of
\* the low Bits(T) bits set) and differs from sign_extend(v).
C2_ZeroExtendNegative ==
    \A c \in CallsOf("zero_extend") :
        LET T == c[1].ty
            U == c[2].ty
            v == c[1].val
            r == c[2].val
        IN  (IsSigned(T) /\ IsSigned(U) /\ Bits(U) > Bits(T) /\ ZNeg(Value(T, v))) =>
                /\ ~ZNeg(Value(U, r))
                /\ Value(U, r) = ZAdd(Value(T, v), ZPow2(Bits(T)))
                /\ (v = Pos(T) => Value(U, r) = ZSub(ZPow2(Bits(T)), ZPow2(0)))
                /\ r # sign_extend(T, U, v)

\* -1 of type i8 zero-extended to i16 (the result is 255).
C2_Witness ==
    /\ arg.ty = i8
    /\ arg.val = Pos(i8)
    /\ first # NoCall
    /\ first.op = "zero_extend"
    /\ first.ty = i16
    /\ first.val = 0 .. 7

\* C3: for unsigned T and unsigned U, zero_extend(v) is the same number as
\* v, for every v including T::MAX.
C3_ZeroExtendUnsignedValue ==
    \A c \in CallsOf("zero_extend") :
        LET T == c[1].ty
            U == c[2].ty
            v == c[1].val
            r == c[2].val
        IN  (IsUnsigned(T) /\ IsUnsigned(U)) => Value(U, r) = Value(T, v)

\* u16::MAX zero-extended to u64.
C3_Witness ==
    /\ arg.ty = u16
    /\ arg.val = Pos(u16)
    /\ first # NoCall
    /\ first.op = "zero_extend"
    /\ first.ty = u64

\* C4: for every SignExtend instance from signed T to a strictly wider
\* signed U and every v, sign_extend(v) is the same number as v: its low
\* Bits(T) bits are the bits of v and every higher bit is the sign bit of v.
C4_SignExtendValue ==
    \A c \in CallsOf("sign_extend") :
        LET T == c[1].ty
            U == c[2].ty
            v == c[1].val
            r == c[2].val
            high == Bits(T) .. (Bits(U) - 1)
        IN  (IsSigned(T) /\ IsSigned(U) /\ Bits(U) > Bits(T)) =>
                /\ Value(U, r) = Value(T, v)
                /\ r \cap Pos(T) = v
                /\ r \cap high = (IF (Bits(T) - 1) \in v THEN high ELSE {})

\* i16::MIN sign-extended to i64.
C4_Witness ==
    /\ arg.ty = i16
    /\ arg.val = {Bits(i16) - 1}
    /\ first # NoCall
    /\ first.op = "sign_extend"
    /\ first.ty = i64
    /\ first.val = (Bits(i16) - 1) .. (Bits(i64) - 1)

\* C5: for every Extend instance and every v, extend(v) is zero_extend(v)
\* when T is unsigned and sign_extend(v) when T is signed; the extension of
\* a negative value is negative and, for a strictly wider U, is not the
\* zero-extended value.
C5_ExtendDispatch ==
    \A c \in CallsOf("extend") :
        LET T == c[1].ty
            U == c[2].ty
            v == c[1].val
            r == c[2].val
        IN  /\ IsUnsigned(T) => r = zero_extend(T, U, v)
            /\ IsSigned(T) => r = sign_extend(T, U, v)
            /\ ZNeg(Value(T, v)) =>
                    /\ ZNeg(Value(U, r))
                    /\ Bits(U) > Bits(T) => r # zero_extend(T, U, v)

\* A negative i32 extended to i128, and the result extended again.
C5_Witness ==
    /\ arg.ty = i32
    /\ (Bits(i32) - 1) \in arg.val
    /\ first # NoCall
    /\ first.op = "extend"
    /\ first.ty = i128
    /\ first.val = arg.val \cup (Bits(i32) .. (Bits(i128) - 1))

\* C6: for every Truncate instance from T to a strictly narrower U and
\* every v, truncate(v) is the low Bits(U) bits of v: v mod 2^Bits(U) for
\* unsigned types, and for signed types those bits read as two's complement
\* (-1 gives -1, and the result is negative exactly when bit Bits(U)-1 of v
\* is set).
C6_TruncateLowBits ==
    \A c \in CallsOf("truncate") :
        LET T == c[1].ty
            U == c[2].ty
            v == c[1].val
            r == c[2].val
        IN  Bits(U) < Bits(T) =>
                /\ IsSigned(T) = IsSigned(U)
                /\ r = v \cap Pos(U)
                /\ IsUnsigned(T) => Value(U, r) = ZMod2(Value(T, v), Bits(U))
                /\ IsSigned(T) =>
                        /\ ZMod2(Value(U, r), Bits(U)) = ZMod2(Value(T, v), Bits(U))
                        /\ ZNeg(Value(U, r)) = ((Bits(U) - 1) \in v)
                        /\ (v = Pos(T) => r = Pos(U))

\* A positive i16 with bit 7 set truncated to i8: the result is negative.
C6_Witness ==
    /\ arg.ty = i16
    /\ arg.val = {Bits(i8) - 1}
    /\ first # NoCall
    /\ first.op = "truncate"
    /\ first.ty = i8
    /\ ZNeg(Value(i8, first.val))

\* C7: a conversion from T to T returns its input, for zero_extend,
\* sign_extend, extend and truncate, every T and every v.
C7_SelfConversion ==
    \A c \in Calls :
        (/\ c[2].op \in {"zero_extend", "sign_extend", "extend", "truncate"}
         /\ c[2].ty = c[1].ty)
            => c[2].val = c[1].val

\* A negative i64 zero-extended to i64, then truncated to i64.
C7_Witness ==
    /\ arg.ty = i64
    /\ (Bits(i64) - 1) \in arg.val
    /\ first # NoCall
    /\ first.op = "zero_extend"
    /\ first.ty = i64
    /\ second # NoCall
    /\ second.op = "truncate"
    /\ second.ty = i64

\* C8: as_signed(as_unsigned(v)) = v for every v of every signed type, and
\* as_unsigned(as_signed(u)) = u for every u of every unsigned type.
C8_ReinterpretRoundTrip ==
    (first # NoCall /\ second # NoCall) =>
        /\ (IsSigned(arg.ty) /\ first.op = "as_unsigned" /\ second.op = "as_signed")
                => (second.ty = arg.ty /\ second.val = arg.val)
        /\ (IsUnsigned(arg.ty) /\ first.op = "as_signed" /\ second.op = "as_unsigned")
                => (second.ty = arg.ty /\ second.val = arg.val)

\* isize::MIN (64-bit target) reinterpreted as usize and back.
C8_Witness ==
    /\ arg.ty = isize(8)
    /\ arg.val = {Bits(isize(8)) - 1}
    /\ first # NoCall
    /\ first.op = "as_unsigned"
    /\ first.ty = usize(8)
    /\ second # NoCall
    /\ second.op = "as_signed"

\* C9: reinterpretation keeps the bit pattern.  For signed v of width w,
\* as_unsigned(v) is v when v >= 0 and v + 2^w when v < 0 (-1 gives MAX, MIN
\* gives 2^(w-1)); for unsigned u, as_signed(u) is u when u < 2^(w-1) and
\* u - 2^w otherwise; as_unsigned of an unsigned value and as_signed of a
\* signed value return the input.
C9_ReinterpretValue ==
    /\ \A c \in CallsOf("as_unsigned") :
            LET T == c[1].ty
                U == c[2].ty
                v == c[1].val
                r == c[2].val
                w == Bits(T)
            IN  /\ U = UnsignedOf(T)
                /\ r = v
                /\ IsSigned(T) =>
                        /\ ~ZNeg(Value(T, v)) => Value(U, r) = Value(T, v)
                        /\ ZNeg(Value(T, v)) =>
                                Value(U, r) = ZAdd(Value(T, v), ZPow2(w))
                        /\ v = Pos(T) => r = Pos(U)
                        /\ v = {w - 1} => Value(U, r) = ZPow2(w - 1)
                /\ IsUnsigned(T) => Value(U, r) = Value(T, v)
    /\ \A c \in CallsOf("as_signed") :
            LET T == c[1].ty
                S == c[2].ty
                v == c[1].val
                r == c[2].val
                w == Bits(T)
            IN  /\ S = SignedOf(T)
                /\ r = v
                /\ IsUnsigned(T) =>
                        /\ ZLess(Value(T, v), ZPow2(w - 1)) =>
                                Value(S, r) = Value(T, v)
                        /\ ~ZLess(Value(T, v), ZPow2(w - 1)) =>
                                Value(S, r) = ZSub(Value(T, v), ZPow2(w))
                /\ IsSigned(T) => Value(S, r) = Value(T, v)

\* i128::MIN reinterpreted as u128, and that value reinterpreted as i128.
C9_Witness ==
    /\ arg.ty = i128
    /\ arg.val = {Bits(i128) - 1}
    /\ first # NoCall
    /\ first.op = "as_unsigned"
    /\ first.ty = u128
    /\ ~ZNeg(Value(first.ty, first.val))
    /\ second # NoCall
    /\ second.op = "as_signed"
    /\ second.ty = i128
    /\ ZNeg(Value(second.ty, second.val))

\* C10: for every signed type of width w and every v, abs_unsigned(v) is
\* |v| as an unsigned number of width w: v when v >= 0, and
\* (NOT as_unsigned(v)) + 1 mod 2^w when v < 0; abs_unsigned(MIN) = 2^(w-1),
\* abs_unsigned(MAX) = 2^(w-1) - 1 and abs_unsigned(-1) = 1.
C10_AbsUnsigned ==
    \A c \in CallsOf("abs_unsigned") :
        LET T == c[1].ty
            U == c[2].ty
            v == c[1].val
            r == c[2].val
            w == Bits(T)
            one == ZPow2(0)
            \* NOT u = 2^w - 1 - u
            notu == ZSub(ZSub(ZPow2(w), one), Value(U, as_unsigned(T, v)))
        IN  IsSigned(T) =>
                /\ U = UnsignedOf(T)
                /\ Value(U, r) = ZAbs(Value(T, v))
                /\ ~ZNeg(Value(T, v)) => Value(U, r) = Value(U, as_unsigned(T, v))
                /\ ZNeg(Value(T, v)) => Value(U, r) = ZMod2(ZAdd(notu, one), w)
                /\ v = {w - 1} => Value(U, r) = ZPow2(w - 1)
                /\ v = Pos(T) \ {w - 1} => Value(U, r) = ZSub(ZPow2(w - 1), one)
                /\ v = Pos(T) => Value(U, r) = one

\* abs_unsigned(i8::MIN) is 128.
C10_Witness ==
    /\ arg.ty = i8
    /\ arg.val = {Bits(i8) - 1}
    /\ first # NoCall
    /\ first.op = "abs_unsigned"
    /\ first.ty = u8
    /\ first.val = {7}

\* C11: split then join is the identity: for every T with Split and Join
\* and every v of T, with (l, h) = lo_hi(v), join(l, h) = v.
C11_SplitThenJoin ==
    (first.op = "lo_hi" /\ second.op = "join") =>
        (second.ty = arg.ty /\ second.val = arg.val)

\* A u128 with bits set in both halves, split and joined again.
C11_Witness ==
    /\ ~IsPair(arg)
    /\ arg.ty = u128
    /\ arg.val = Pos(u128) \ {Bits(u64)}
    /\ first.op = "lo_hi"
    /\ first.lo.val = Pos(u64)
    /\ first.hi.val = Pos(u64) \ {0}
    /\ second.op = "join"

\* C12: join then split is the identity: for every T with half type H and
\* every l, h of H, lo_hi(join(l, h)) = (l, h), lo(join(l, h)) = l and
\* hi(join(l, h)) = h.
C12_JoinThenSplit ==
    (IsPair(arg) /\ first.op = "join") =>
        /\ second.op = "lo_hi" => (second.lo = arg.lo /\ second.hi = arg.hi)
        /\ second.op = "lo" => Val(second.ty, second.val) = arg.lo
        /\ second.op = "hi" => Val(second.ty, second.val) = arg.hi

\* u32::join(u16::MAX, 0) split again: the high half stays 0.
C12_Witness ==
    /\ IsPair(arg)
    /\ arg.lo = Val(u16, Pos(u16))
    /\ arg.hi = Val(u16, {})
    /\ first.op = "join"
    /\ first.ty = u32
    /\ second.op = "lo_hi"

\* C13: for every T of width 2k with Split and every v, lo(v) is a value of
\* the k-bit half type and is the number v mod 2^k.
C13_LoIsLowHalf ==
    \A c \in CallsOf("lo") :
        LET T == c[1].ty
            H == c[2].ty
            k == Bits(T) \div 2
        IN  /\ IsUnsigned(H)
            /\ Bits(H) = k
            /\ Value(H, c[2].val) = ZMod2(Value(T, c[1].val), k)

\* lo of a u64 whose only set bit is in the high half.
C13_Witness ==
    /\ ~IsPair(arg)
    /\ arg.ty = u64
    /\ arg.val = {Bits(u64) - 1}
    /\ first.op = "lo"
    /\ first.ty = u32
    /\ first.val = {}

\* C14: for every T of width 2k with Split and every v, hi(v) is the high k
\* bits of v moved down by k with zeros shifted in: the number
\* floor(v / 2^k), that is the q with q * 2^k <= v < (q + 1) * 2^k.
C14_HiIsHighHalf ==
    \A c \in CallsOf("hi") :
        LET T == c[1].ty
            H == c[2].ty
            v == c[1].val
            k == Bits(T) \div 2
            q == Value(H, c[2].val)
        IN  /\ IsUnsigned(H)
            /\ Bits(H) = k
            /\ LoBits(T) = k
            /\ c[2].val = { i - k : i \in { j \in v : j >= k } }
            /\ ZLeq(ZMul2(q, k), Value(T, v))
            /\ ZLess(Value(T, v), ZMul2(ZAdd(q, ZPow2(0)), k))

\* hi of u128::MAX - 2^64 is u64::MAX - 1.
C14_Witness ==
    /\ ~IsPair(arg)
    /\ arg.ty = u128
    /\ arg.val = Pos(u128) \ {Bits(u64)}
    /\ first.op = "hi"
    /\ first.ty = u64
    /\ first.val = Pos(u64) \ {0}

\* C15: for every T with Split and every v, lo_hi(v) = (lo(v), hi(v)): the
\* first component is the low half and the second the high half.
C15_LoHiIsLoAndHi ==
    \A c \in CallsOf("lo_hi") :
        LET T == c[1].ty
            v == c[1].val
            k == Bits(T) \div 2
        IN  /\ c[2].lo = Val(LoOf(T), lo(T, v))
            /\ c[2].hi = Val(HiOf(T), hi(T, v))
            /\ Value(c[2].lo.ty, c[2].lo.val) = ZMod2(Value(T, v), k)
            /\ ZAdd(ZMul2(Value(c[2].hi.ty, c[2].hi.val), k),
                    Value(c[2].lo.ty, c[2].lo.val)) = Value(T, v)

\* lo_hi of the u16 with only bit 8 set is (0, 1).
C15_Witness ==
    /\ ~IsPair(arg)
    /\ arg.ty = u16
    /\ arg.val = {Bits(u8)}
    /\ first.op = "lo_hi"
    /\ first.lo = Val(u8, {})
    /\ first.hi = Val(u8, {0})

\* C16: when v < 2^k (v fits in the low half), hi(v) = 0 and lo(v) = v;
\* when v = T::MAX, lo(v) and hi(v) are both H::MAX.
C16_SmallAndMax ==
    \A c \in CallsOf("lo") \cup CallsOf("hi") :
        LET T == c[1].ty
            H == c[2].ty
            v == c[1].val
            r == c[2].val
            k == Bits(T) \div 2
        IN  /\ ZLess(Value(T, v), ZPow2(k)) =>
                    /\ c[2].op = "hi" => Value(H, r) = {}
                    /\ c[2].op = "lo" => Value(H, r) = Value(T, v)
            /\ v = Pos(T) => r = Pos(H)

\* hi(u16::from(u8::MAX)) is 0: the u16 is u16::join(u8::MAX, 0).
C16_Witness ==
    /\ first.op = "join"
    /\ first.ty = u16
    /\ first.val = Pos(u8)
    /\ second.op = "hi"
    /\ second.ty = u8
    /\ second.val = {}

\* The ten fixed-width integer types.
FixedTypes == { i8, i16, i32, i64, i128, u8, u16, u32, u64, u128 }

\* The types of the values of the state: the argument and the results.
StateTypes == { arg.ty } \cup { c[2].ty : c \in Calls }

\* C17: capability coverage: every fixed-width type has a ZeroExtend and an
\* Extend instance to every type of equal or greater width of the same
\* signedness, every signed type has a SignExtend instance to every signed
\* type of equal or greater width, and every type has a Truncate instance
\* to itself and to every narrower type of the same signedness.
C17_Coverage ==
    \A T \in StateTypes \cap FixedTypes :
        \A U \in FixedTypes :
            IsSigned(T) = IsSigned(U) =>
                /\ Bits(U) >= Bits(T) =>
                        /\ ZeroExtendImpl(T, U)
                        /\ ExtendImpl(T, U)
                        /\ IsSigned(T) => SignExtendImpl(T, U)
                /\ Bits(U) <= Bits(T) => TruncateImpl(T, U)

\* An i32 that reached i128 by an extension and came back to i8 by a
\* truncation: the instances at both ends of the signed family.
C17_Witness ==
    /\ arg.ty = i32
    /\ first.op \in {"zero_extend", "sign_extend", "extend"}
    /\ first.ty = i128
    /\ second.op = "truncate"
    /\ second.ty = i8

\* C18: no extension capability for a narrowing pair: every ZeroExtend,
\* SignExtend or Extend instance from T to U has width(U) >= width(T), so
\* every call of them returns a type at least as wide as its input; there
\* is no instance that zero-extends or sign-extends i32 to i16.
C18_NoNarrowingExtension ==
    /\ \A T \in StateTypes : \A U \in Types :
            (ZeroExtendImpl(T, U) \/ SignExtendImpl(T, U) \/ ExtendImpl(T, U))
                => Bits(U) >= Bits(T)
    /\ \A c \in CallsOf("zero_extend") \cup CallsOf("sign_extend")
                \cup CallsOf("extend") :
            Bits(c[2].ty) >= Bits(c[1].ty)
    /\ i32 \in StateTypes =>
            /\ ~ZeroExtendImpl(i32, i16)
            /\ ~SignExtendImpl(i32, i16)
            /\ ~ExtendImpl(i32, i16)

\* An i32 sign-extended to i64.
C18_Witness ==
    /\ arg.ty = i32
    /\ first.op = "sign_extend"
    /\ first.ty = i64
    /\ Bits(first.ty) > Bits(arg.ty)

\* C19: sign extension is only defined between signed types: every
\* SignExtend instance, the one from T to T included, has a signed source
\* and a signed destination, so no sign_extend call has an unsigned input
\* or result.
C19_SignExtendOnlySigned ==
    \A c \in CallsOf("sign_extend") :
        IsSigned(c[1].ty) /\ IsSigned(c[2].ty)

\* C20: truncation is gated on width and family: every Truncate instance
\* from T to U with T # U has width(T) > width(U) and T, U of the same
\* signedness; the only instance between types of equal width is T to T,
\* and no instance goes from a narrower to a wider type.
C20_TruncateGate ==
    /\ \A T \in StateTypes : \A U \in Types :
            TruncateImpl(T, U) =>
                /\ T # U => (Bits(T) > Bits(U) /\ IsSigned(T) = IsSigned(U))
                /\ Bits(T) = Bits(U) => T = U
                /\ Bits(T) >= Bits(U)
    /\ \A c \in CallsOf("truncate") :
            /\ Bits(c[1].ty) >= Bits(c[2].ty)
            /\ c[1].ty # c[2].ty =>
                    /\ Bits(c[1].ty) > Bits(c[2].ty)
                    /\ IsSigned(c[1].ty) = IsSigned(c[2].ty)

\* A u64 truncated to u16 and then to itself.
C20_Witness ==
    /\ arg.ty = u64
    /\ first.op = "truncate"
    /\ first.ty = u16
    /\ second.op = "truncate"
    /\ second.ty = u16

\* C21: the signedness pairing is closed and consistent: for each width the
\* signed and the unsigned type have the same Signed and the same Unsigned
\* associated type, the two have the same size,
\* Signed(Unsigned(T)) = Signed(T) and Unsigned(Signed(T)) = Unsigned(T),
\* signed types are IsSigned, unsigned types are IsUnsigned, and no type is
\* both; as_signed and as_unsigned return these types.
C21_SignednessPairing ==
    /\ \A T \in StateTypes :
            LET S == SignedOf(T)
                N == UnsignedOf(T)
            IN  /\ T \in {S, N}
                /\ SignedOf(S) = S /\ SignedOf(N) = S
                /\ UnsignedOf(S) = N /\ UnsignedOf(N) = N
                /\ size_of(S) = size_of(N)
                /\ SignedOf(UnsignedOf(T)) = SignedOf(T)
                /\ UnsignedOf(SignedOf(T)) = UnsignedOf(T)
                /\ IsSigned(S) /\ IsUnsigned(N)
                /\ ~(IsSigned(T) /\ IsUnsigned(T))
                /\ S.name \in {"i8", "i16", "i32", "i64", "i128", "isize"}
                /\ N.name \in {"u8", "u16", "u32", "u64", "u128", "usize"}
    /\ \A c \in CallsOf("as_signed") :
            c[2].ty = SignedOf(c[1].ty) /\ IsSigned(c[2].ty)
    /\ \A c \in CallsOf("as_unsigned") \cup CallsOf("abs_unsigned") :
            c[2].ty = UnsignedOf(c[1].ty) /\ IsUnsigned(c[2].ty)

\* A usize taken to isize by as_signed and back to usize by as_unsigned.
C21_Witness ==
    /\ arg.ty = usize(8)
    /\ first.op = "as_signed"
    /\ first.ty = isize(8)
    /\ second.op = "as_unsigned"
    /\ second.ty = usize(8)

\* C22: Split and Join are defined exactly for u16, u32, u64 and u128, each
\* with Lo = Hi = the unsigned type of half the width; no signed type and
\* not u8 has them, so every lo, hi, lo_hi and join call is on one of the
\* four and works with values of its half type.
C22_SplitTypes ==
    /\ \A T \in Types : SplitImpl(T) <=> T \in {u16, u32, u64, u128}
    /\ LoOf(u16) = u8 /\ LoOf(u32) = u16 /\ LoOf(u64) = u32 /\ LoOf(u128) = u64
    /\ \A T \in {u16, u32, u64, u128} :
            /\ HiOf(T) = LoOf(T)
            /\ IsUnsigned(LoOf(T))
            /\ 2 * Bits(LoOf(T)) = Bits(T)
    /\ \A c \in CallsOf("lo") \cup CallsOf("hi") :
            /\ c[1].ty \in {u16, u32, u64, u128}
            /\ IsUnsigned(c[2].ty)
            /\ 2 * Bits(c[2].ty) = Bits(c[1].ty)
    /\ \A c \in CallsOf("lo_hi") :
            /\ c[1].ty \in {u16, u32, u64, u128}
            /\ c[2].lo.ty = c[2].hi.ty
            /\ IsUnsigned(c[2].lo.ty)
            /\ 2 * Bits(c[2].lo.ty) = Bits(c[1].ty)
    /\ \A c \in CallsOf("join") :
            /\ c[2].ty \in {u16, u32, u64, u128}
            /\ c[1].lo.ty = c[1].hi.ty
            /\ IsUnsigned(c[1].lo.ty)
            /\ 2 * Bits(c[1].lo.ty) = Bits(c[2].ty)

\* The narrowest case: a u16 made by join from two u8 and split into its
\* u8 halves again.
C22_Witness ==
    /\ IsPair(arg)
    /\ arg.lo.ty = u8
    /\ first.op = "join"
    /\ first.ty = u16
    /\ second.op = "lo_hi"
    /\ second.lo.ty = u8
    /\ second.hi.ty = u8

\* C23: the convenience entry points add no behaviour: for every instance
\* from T to U and every v, zero_extended::<U>(v) = zero_extend(v),
\* sign_extended::<U>(v) = sign_extend(v), extended::<U>(v) = extend(v),
\* truncated::<U>(v) = truncate(v), and a capability called on a reference
\* &v returns what it returns on the value v.
C23_HelpersAddNothing ==
    /\ \A c \in CallsOf("zero_extended") \cup CallsOf("zero_extend_ref") :
            /\ ZeroExtendImpl(c[1].ty, c[2].ty)
            /\ c[2].val = zero_extend(c[1].ty, c[2].ty, c[1].val)
    /\ \A c \in CallsOf("sign_extended") \cup CallsOf("sign_extend_ref") :
            /\ SignExtendImpl(c[1].ty, c[2].ty)
            /\ c[2].val = sign_extend(c[1].ty, c[2].ty, c[1].val)
    /\ \A c \in CallsOf("extended") \cup CallsOf("extend_ref") :
            /\ ExtendImpl(c[1].ty, c[2].ty)
            /\ c[2].val = extend(c[1].ty, c[2].ty, c[1].val)
    /\ \A c \in CallsOf("truncated") \cup CallsOf("truncate_ref") :
            /\ TruncateImpl(c[1].ty, c[2].ty)
            /\ c[2].val = truncate(c[1].ty, c[2].ty, c[1].val)

\* (&(-1i8)).zero_extend() to i32, which is 255, then .truncated::<i8>().
C23_Witness ==
    /\ arg = [ty |-> i8, val |-> Pos(i8)]
    /\ first = Call("zero_extend_ref", i32, Pos(u8))
    /\ second = Call("truncated", i8, Pos(i8))

\* C24: every operation is total and has no error outcome: on every value
\* of its domain each of zero_extend, sign_extend, extend, truncate,
\* as_signed, as_unsigned, abs_unsigned, lo, hi, lo_hi and join can be
\* called and returns a value of its result type; the add in abs_unsigned
\* never carries out of the type, abs_unsigned(MIN) is 2^(w-1), and the
\* shift amount of hi and join is k, less than the width 2k of T.
C24_Total ==
    /\ \A x \in StateValues : x.ty \in Types /\ x.val \subseteq Pos(x.ty)
    /\ (second = NoCall /\ ~IsPair(Cur)) =>
            /\ ENABLED ZeroExtend /\ ENABLED SignExtend /\ ENABLED Extend
            /\ ENABLED Truncate
            /\ ENABLED AsUnsigned /\ ENABLED AsSigned /\ ENABLED AbsUnsigned
            /\ SplitImpl(Cur.ty) => (ENABLED Lo /\ ENABLED Hi /\ ENABLED LoHi)
    /\ (second = NoCall /\ IsPair(Cur)) => ENABLED Join
    /\ \A c \in CallsOf("abs_unsigned") :
            LET T == c[1].ty
                N == UnsignedOf(T)
                v == c[1].val
            IN  /\ IsNegative(T, v) => Not(N, as_unsigned(T, v)) # Pos(N)
                /\ (IsSigned(T) /\ v = {Bits(T) - 1}) =>
                        Value(N, c[2].val) = ZPow2(Bits(T) - 1)
    /\ \A c \in CallsOf("hi") \cup CallsOf("lo_hi") :
            /\ ~shift_overflows(c[1].ty, LoBits(c[1].ty))
            /\ 2 * LoBits(c[1].ty) = Bits(c[1].ty)
    /\ \A c \in CallsOf("join") :
            /\ ~shift_overflows(c[2].ty, LoBits(c[2].ty))
            /\ 2 * LoBits(c[2].ty) = Bits(c[2].ty)

\* abs_unsigned(i64::MIN) is 2^63, and its hi is 2^31.
C24_Witness ==
    /\ ~IsPair(arg)
    /\ arg = Val(i64, {Bits(i64) - 1})
    /\ first = Call("abs_unsigned", u64, {Bits(u64) - 1})
    /\ second = Call("hi", u32, {Bits(u32) - 1})

\* C25: for every T of width 2k with half type H and every l, h of H,
\* join(l, h) has l in its low k bits and h in its high k bits: it is the
\* number h * 2^k + l, the first argument being the low half; the shifted
\* high part and the zero-extended low part share no set bit.
C25_JoinValue ==
    \A c \in CallsOf("join") :
        LET T == c[2].ty
            H == c[1].lo.ty
            l == c[1].lo.val
            h == c[1].hi.val
            r == c[2].val
            k == Bits(T) \div 2
        IN  /\ Bits(H) = k
            /\ r \cap (0 .. (k - 1)) = l
            /\ { i - k : i \in r \ (0 .. (k - 1)) } = h
            /\ Value(T, r) = ZAdd(ZMul2(Value(H, h), k), Value(H, l))
            /\ shl(T, zero_extend(HiOf(T), T, h), LoBits(T))
                    \cap zero_extend(LoOf(T), T, l) = {}

\* u16::join(u8::MAX, 1) is 0x01ff.
C25_Witness ==
    /\ IsPair(arg)
    /\ arg.lo = Val(u8, Pos(u8))
    /\ arg.hi = Val(u8, {0})
    /\ first = Call("join", u16, 0 .. Bits(u8))

\* C26: abs_unsigned on a value of an unsigned type returns the value
\* unchanged, the maximum included.
C26_AbsUnsignedOfUnsigned ==
    \A c \in CallsOf("abs_unsigned") :
        IsUnsigned(c[1].ty) =>
            /\ c[2].ty = c[1].ty
            /\ c[2].val = c[1].val
            /\ Value(c[2].ty, c[2].val) = Value(c[1].ty, c[1].val)

\* u128::MAX.abs_unsigned() is u128::MAX.
C26_Witness ==
    /\ arg = Val(u128, Pos(u128))
    /\ first = Call("abs_unsigned", u128, Pos(u128))

\* C27: extension is undone by truncation: for every instance from T to a
\* wider U and every v of T, truncate(zero_extend(v)) = v and, for signed
\* types, truncate(sign_extend(v)) = v; the converse
\* zero_extend(truncate(w)) = w holds exactly when the bits of w that the
\* truncation discards are all zero.
C27_ExtendThenTruncate ==
    /\ (first.op \in {"zero_extend", "sign_extend"} /\ second.op = "truncate"
            /\ second.ty = arg.ty) =>
            /\ second.val = arg.val
            /\ Value(second.ty, second.val) = Value(arg.ty, arg.val)
    /\ (first.op = "truncate" /\ second.op = "zero_extend"
            /\ second.ty = arg.ty) =>
            (second.val = arg.val
                <=> arg.val \cap (Bits(first.ty) .. (Bits(arg.ty) - 1)) = {})

\* -1i8 sign-extended to i128 and truncated to i8 again.
C27_Witness ==
    /\ arg = Val(i8, Pos(i8))
    /\ first = Call("sign_extend", i128, Pos(i128))
    /\ second = Call("truncate", i8, Pos(i8))

\* C28: conversions compose: for types T, U, W of one signedness with
\* width(T) <= width(U) <= width(W), zero-extending T to U and then U to W
\* is zero-extending T to W, the same holds for sign extension, and
\* truncating W to U and then U to T is truncating W to T.
C28_Compose ==
    /\ (first.op = "zero_extend" /\ second.op = "zero_extend") =>
            /\ ZeroExtendImpl(arg.ty, second.ty)
            /\ second.val = zero_extend(arg.ty, second.ty, arg.val)
            /\ second.val = arg.val
    /\ (first.op = "sign_extend" /\ second.op = "sign_extend") =>
            /\ SignExtendImpl(arg.ty, second.ty)
            /\ second.val = sign_extend(arg.ty, second.ty, arg.val)
            /\ IsSigned(arg.ty) =>
                    Value(second.ty, second.val) = Value(arg.ty, arg.val)
    /\ (first.op = "truncate" /\ second.op = "truncate") =>
            /\ TruncateImpl(arg.ty, second.ty)
            /\ second.val = truncate(arg.ty, second.ty, arg.val)
            /\ second.val = arg.val \cap Pos(second.ty)

\* An i8 with the sign bit set sign-extended to i32 and then to i128.
C28_Witness ==
    /\ arg = Val(i8, {Bits(i8) - 1})
    /\ first.op = "sign_extend"
    /\ first.ty = i32
    /\ second.op = "sign_extend"
    /\ second.ty = i128
    /\ second.val = (Bits(i8) - 1) .. (Bits(i128) - 1)

\* The pointer-width types.
PtrTypes == { T \in Types : T.name \in {"isize", "usize"} }

\* C29: ZeroExtend and Extend instances connect only types of the same
\* signedness (there is none from i8 to u16 or from u8 to i16), and isize
\* and usize have no ZeroExtend, SignExtend, Extend, Truncate, Split or
\* Join instance but the conversion to themselves.
C29_SameFamilyOnly ==
    /\ \A T \in StateTypes : \A U \in Types :
            /\ (ZeroExtendImpl(T, U) \/ ExtendImpl(T, U)) =>
                    IsSigned(T) = IsSigned(U)
            /\ (T \in PtrTypes \/ U \in PtrTypes) =>
                    ((ZeroExtendImpl(T, U) \/ SignExtendImpl(T, U)
                        \/ ExtendImpl(T, U) \/ TruncateImpl(T, U)) => T = U)
    /\ \A T \in StateTypes \cap PtrTypes : ~SplitImpl(T)
    /\ \A p \in impl_split_join : \A i \in 1..3 : p[i] \notin PtrTypes
    /\ i8 \in StateTypes => (~ZeroExtendImpl(i8, u16) /\ ~ExtendImpl(i8, u16))
    /\ u8 \in StateTypes => (~ZeroExtendImpl(u8, i16) /\ ~ExtendImpl(u8, i16))
    /\ \A c \in CallsOf("zero_extend") \cup CallsOf("extend") :
            IsSigned(c[1].ty) = IsSigned(c[2].ty)
    /\ \A c \in CallsOf("zero_extend") \cup CallsOf("sign_extend")
                \cup CallsOf("extend") \cup CallsOf("truncate") :
            (c[1].ty \in PtrTypes \/ c[2].ty \in PtrTypes) => c[1].ty = c[2].ty

\* A usize whose only conversions are to itself.
C29_Witness ==
    /\ arg.ty = usize(4)
    /\ first.op = "zero_extend"
    /\ first.ty = usize(4)
    /\ second.op = "truncate"
    /\ second.ty = usize(4)

====
